---- MODULE Spec2Model ----
(***************************************************************************)
(* Model of the newsletter scheduler of ai-newsletter-system               *)
(* (backend/src/scheduler.py) with the collaborators it consumes: the      *)
(* subscribers and newsletter_logs tables (backend/src/main.py), the       *)
(* content generator (backend/src/content_generator.py) and the email      *)
(* service (backend/src/email_service.py).                                 *)
(*                                                                         *)
(* HTTP request handlers run on their own threads (callers); every         *)
(* successful start() launches one daemon thread running _run_scheduler.   *)
(* The scheduler object holds no lock, so each attribute read or write of  *)
(* start(), stop(), _run_scheduler() and _update_next_run() is a step of   *)
(* its own and the steps of different threads interleave.                  *)
(***************************************************************************)
EXTENDS Integers, Sequences, FiniteSets, TLC

\* ------------------------------------------------------------------ bounds
\* Number of concurrent HTTP request threads.
NumCallers == 2
\* Number of start() calls that get past the is_running check in a run.
MaxStarts == 2
\* Number of stop() calls that get past the is_running check in a run.
MaxStops == 1
\* Number of subscribe requests accepted in a run.
MaxSubscribes == 1
\* Last instant of the clock while at most one start() has passed its check.
MaxTime == 2
\* Last instant to which the clock advances once a second start() has passed.
RaceTime == 1
\* Number of email addresses.
NumEmails == 2
\* Ticks of the clock in one week (the rule fires every Monday 09:00).
Week == 1
\* Number of generation passes begun while at most one start() has passed.
MaxPasses == 2
\* Number of generation passes begun once a second start() has passed.
RacePasses == 2

\* --------------------------------------------------------------- constants
\* validate_topics: at most 3 topics.
MaxTopics == 3

Callers == 1..NumCallers
\* One loop thread per start() that got past its is_running check.
Threads == (NumCallers + 1)..(NumCallers + MaxStarts)
Ctxs == Callers \cup Threads
\* The lower-case email addresses.
Emails == 1..NumEmails
\* The email strings a request can carry and a row can hold: address e of
\* Emails as it is, and e + NumEmails, the same address written with capital
\* letters and blanks around it.
Addresses == 1..(2 * NumEmails)
\* The empty string given as email.
EmptyEmail == 0
\* email.strip().lower().
NormalizeEmail(a) == IF a > NumEmails THEN a - NumEmails ELSE a
JobIds == 1..MaxStarts

\* Python's None.
None == << >>
Some(t) == <<t>>

\* AVAILABLE_TOPICS (two of the ten) and a topic that is not on the list.
AVAILABLE_TOPICS == {"LLMs released this week", "Coding tools and IDEs"}
OtherTopic == "Quantum computing"

\* ------------------------------------------------------------------ json
\* json.dumps of a list of strings: the text as a sequence of tokens,
\* '[' , the quoted items separated by ',' , ']'.
Punct(ch) == <<"punct", ch>>
Quoted(str) == <<"string", str>>

RECURSIVE JoinItems(_)
JoinItems(l) ==
    IF Len(l) = 0 THEN << >>
    ELSE IF Len(l) = 1 THEN <<Quoted(l[1])>>
    ELSE <<Quoted(l[1]), Punct(",")>> \o JoinItems(Tail(l))

JsonDumps(l) == <<Punct("[")>> \o JoinItems(l) \o <<Punct("]")>>

\* json.loads of such a text: [ok |-> TRUE, value |-> the list], or ok = FALSE
\* where json.loads raises json.JSONDecodeError.
ParseError == [ok |-> FALSE, value |-> << >>]
Parsed(l) == [ok |-> TRUE, value |-> l]

RECURSIVE ParseItems(_)
ParseItems(s) ==
    IF Len(s) = 0 THEN ParseError
    ELSE IF s[1][1] # "string" THEN ParseError
    ELSE IF Len(s) = 1 THEN Parsed(<<s[1][2]>>)
    ELSE IF s[2] # Punct(",") THEN ParseError
    ELSE LET rest == ParseItems(SubSeq(s, 3, Len(s)))
         IN  IF rest.ok THEN Parsed(<<s[1][2]>> \o rest.value) ELSE ParseError

JsonLoads(s) ==
    IF Len(s) < 2 THEN ParseError
    ELSE IF s[1] # Punct("[") \/ s[Len(s)] # Punct("]") THEN ParseError
    ELSE IF Len(s) = 2 THEN Parsed(<< >>)
    ELSE ParseItems(SubSeq(s, 2, Len(s) - 1))

\* ------------------------------------------------------- subscription store
\* validate_topics (main.py): a list of 1 to 3 topics, all of them available.
validate_topics(topics) ==
    /\ Len(topics) # 0
    /\ ~(Len(topics) > MaxTopics)
    /\ \A i \in 1..Len(topics) : topics[i] \in AVAILABLE_TOPICS

\* The topic lists the model's requests carry: shared lists, the same set in
\* two orders, and lists validate_topics rejects.
RequestLists ==
    { <<"LLMs released this week">>,
      <<"LLMs released this week", "Coding tools and IDEs">>,
      <<"Coding tools and IDEs", "LLMs released this week">>,
      << >>,
      <<OtherTopic>> }

\* The topics column of a row written by subscribe().
StoredStrings == {JsonDumps(l) : l \in {r \in RequestLists : validate_topics(r)}}

\* A row of the subscribers table, or NoRow for an email that has none.
NoRow == [topics |-> << >>, active |-> FALSE, present |-> FALSE]
Row(topics_json, active) == [topics |-> topics_json, active |-> active, present |-> TRUE]
Rows == {NoRow} \cup {Row(s, a) : s \in StoredStrings, a \in BOOLEAN}

\* The subscribers tables that subscribe() requests can have built: rows for
\* normalized addresses only.
Tables ==
    {[a \in Addresses |-> IF a \in Emails THEN f[a] ELSE NoRow] : f \in [Emails -> Rows]}

\* The email values the model's requests carry.
RequestEmails == Addresses \cup {EmptyEmail}

VARIABLES
    \* NewsletterScheduler fields
    is_running, last_run, next_run,
    \* schedule's default scheduler: the job list and every job's next_run
    jobs, job_next, njobs,
    \* the wall clock
    now,
    \* request threads: the operation each is in; the last response sent
    cpc, ret,
    \* loop threads: position in _run_scheduler, jobs run_pending still has to run
    tpc, trun, nthreads,
    \* _update_next_run frames (one per calling context): the computed minimum
    upd,
    \* generation passes (one frame per calling context); outcome records,
    \* for every pass begun, the context that ran it and how it ended
    pass, npass, outcome,
    \* the subscribers and newsletter_logs tables, the provider configuration
    subscribers, newsletter_logs, api_configured,
    \* numbers of start() and stop() calls that got past the is_running
    \* check, and of subscribe requests accepted
    nstarts, nstops, nsubscribes,
    \* get_status frames (one per request thread): the fields read so far
    stat,
    \* the frame of a generate_newsletter_content call made outside a pass
    gen

vars == <<is_running, last_run, next_run, jobs, job_next, njobs, now, cpc, ret,
          tpc, trun, nthreads, upd, pass, npass, outcome, subscribers,
          newsletter_logs, api_configured, nstarts, nstops, nsubscribes, stat, gen>>

schedVars == <<is_running, next_run, jobs, job_next, njobs>>
threadVars == <<tpc, trun, nthreads>>
storeVars == <<subscribers, api_configured>>
countVars == <<nstarts, nstops, nsubscribes>>

\* ------------------------------------------------------------ the clock
\* schedule.every().monday.at("09:00"): the rule fires at the multiples of
\* Week; a job's next_run is the first firing instant after the instant t at
\* which it is scheduled.
NextFiring(t) == ((t \div Week) + 1) * Week

\* ------------------------------------------------------ content generator
\* _get_fallback_content: fixed text chosen by the topic alone.
FallbackContent(topic) ==
    [content |-> <<"fallback_text", topic>>, source |-> "fallback"]

\* What requests.post and the decoding of its answer can come to (lines
\* 29-56): a 200 answer with the expected body, an answer with another status,
\* no answer within the timeout, a connection error, a 200 answer whose body
\* is not JSON or lacks choices[0].message.content.
Replies == {"ok", "non_200", "timeout", "connection_error", "malformed_body"}

\* The value standing for an exception that leaves the function.
Raises == [content |-> << >>, source |-> "raised"]

\* Lines 29-64, the body of the try: requests.post raises on a timeout or a
\* connection error; response.json() and the indexing at lines 55-56 raise on
\* a malformed body; a status other than 200 takes the else branch.
TryPost(topic, reply) ==
    IF reply \in {"timeout", "connection_error"} THEN [raised |-> TRUE, value |-> Raises]
    ELSE IF reply = "non_200" THEN [raised |-> FALSE, value |-> FallbackContent(topic)]
    ELSE IF reply = "malformed_body" THEN [raised |-> TRUE, value |-> Raises]
    ELSE [raised |-> FALSE,
          value |-> [content |-> <<"api_text", topic>>, source |-> "perplexity_ai"]]

\* A generator that posts the request whether or not an API key is set.
GenerateContentUnguarded(topic, configured, reply) ==
    LET r == TryPost(topic, reply)
    IN  IF r.raised THEN FallbackContent(topic) ELSE r.value

\* A generator whose handler catches the errors of the request only, not
\* those of decoding the answer.
GenerateContentNarrowExcept(topic, configured, reply) ==
    IF ~configured THEN FallbackContent(topic)
    ELSE LET r == TryPost(topic, reply)
         IN  IF r.raised /\ reply # "malformed_body" THEN FallbackContent(topic) ELSE r.value

\* generate_content_for_topic: without an API key the fallback (lines 22-23);
\* else the value of the try body, and the fallback when it raised (lines
\* 66-68, except Exception).
generate_content_for_topic(topic, configured, reply) ==
    IF ~configured THEN FallbackContent(topic)
    ELSE LET r == TryPost(topic, reply)
         IN  IF r.raised THEN FallbackContent(topic) ELSE r.value

\* generate_newsletter_content: one section per topic, in order. replies[i]
\* is the outcome of the request for the i-th topic; t is datetime.now().
generate_newsletter_content(topics, configured, replies, t) ==
    [ sections |->
        [ i \in 1..Len(topics) |->
            LET d == generate_content_for_topic(topics[i], configured, replies[i])
            IN  [topic |-> topics[i], content |-> d.content, source |-> d.source] ],
      generated_at |-> t,
      topics_count |-> Len(topics) ]

\* json.dumps(content): the text of the content value, as tokens.
RECURSIVE DumpSections(_)
DumpSections(secs) ==
    IF Len(secs) = 0 THEN << >>
    ELSE << <<"topic", secs[1].topic>>, <<"content", secs[1].content[1]>>,
            <<"source", secs[1].source>> >> \o DumpSections(Tail(secs))

DumpContent(c) ==
    << <<"generated_at", c.generated_at>>, <<"topics_count", c.topics_count>> >>
        \o DumpSections(c.sections)

\* The frame of one generate_newsletter_content call: the topics given, the
\* outcome of the request made for each, and the value returned.
NoGen == [pc |-> "none", topics |-> << >>, replies |-> << >>, content |-> << >>]

\* ------------------------------------------------------- generation pass
\* SELECT email, topics FROM subscribers WHERE active = 1, in rowid order.
RECURSIVE ActiveFrom(_, _)
ActiveFrom(tbl, e) ==
    IF e > 2 * NumEmails THEN << >>
    ELSE (IF tbl[e].present /\ tbl[e].active THEN << <<e, tbl[e].topics>> >> ELSE << >>)
            \o ActiveFrom(tbl, e + 1)

\* A SELECT without the WHERE clause: every row, active or not.
FetchEveryRow(tbl) ==
    ActiveFrom([e \in Addresses |-> [tbl[e] EXCEPT !.active = tbl[e].present]], 1)

FetchActive(tbl) == ActiveFrom(tbl, 1)

\* A grouping that does not deduplicate: one key per fetched row.
RECURSIVE GroupKeysPerSubscriber(_)
GroupKeysPerSubscriber(subs) ==
    IF Len(subs) = 0 THEN << >>
    ELSE <<subs[1][2]>> \o GroupKeysPerSubscriber(Tail(subs))

\* topic_groups: the keys of the dict in insertion order (first appearance
\* of each topics string among the fetched rows) ...
RECURSIVE GroupKeys(_)
GroupKeys(subs) ==
    IF Len(subs) = 0 THEN << >>
    ELSE LET front == GroupKeys(SubSeq(subs, 1, Len(subs) - 1))
             k == subs[Len(subs)][2]
         IN  IF \E i \in 1..Len(front) : front[i] = k THEN front ELSE Append(front, k)

\* A group that keeps only the first email appended under its key.
RECURSIVE GroupEmailsFirstOnly(_, _)
GroupEmailsFirstOnly(subs, k) ==
    IF Len(subs) = 0 THEN << >>
    ELSE IF subs[1][2] = k THEN <<subs[1][1]>>
    ELSE GroupEmailsFirstOnly(Tail(subs), k)

\* ... and the emails appended under one key, in fetch order.
RECURSIVE GroupEmails(_, _)
GroupEmails(subs, k) ==
    IF Len(subs) = 0 THEN << >>
    ELSE (IF subs[1][2] = k THEN <<subs[1][1]>> ELSE << >>) \o GroupEmails(Tail(subs), k)

\* The INSERT INTO newsletter_logs of one subscriber of a group. pid is the
\* pass that wrote the row (kept to tell the passes' rows apart), sent_at is
\* the column's DEFAULT CURRENT_TIMESTAMP.
LogRow(pid, email, topics_json, content, t) ==
    [pass |-> pid, subscriber_email |-> email, topics |-> topics_json,
     content |-> DumpContent(content), sent_at |-> t, success |-> TRUE]

RECURSIVE GroupRows(_, _, _, _, _)
GroupRows(pid, emails, topics_json, content, t) ==
    IF Len(emails) = 0 THEN << >>
    ELSE <<LogRow(pid, emails[1], topics_json, content, t)>>
            \o GroupRows(pid, Tail(emails), topics_json, content, t)

\* The frame of _generate_and_send_newsletters in one calling context: the
\* fetched rows (subs), the keys of topic_groups, the Content Provider calls
\* made so far, the rows inserted and not yet committed, the number of HTML
\* renderings; table records the subscribers table as the SELECT read it.
NoTable == [e \in Addresses |-> NoRow]
NoPass ==
    [pc |-> "none", id |-> 0, subs |-> << >>, keys |-> << >>, calls |-> << >>,
     pending |-> << >>, rendered |-> 0, table |-> NoTable]

InPass(x) == pass[x].pc \notin {"none", "done"}

\* A pass that starts without recording last_run.
PassBeginNoStamp(x) ==
    /\ npass < (IF nstarts <= 1 THEN MaxPasses ELSE RacePasses)
    /\ pass[x].pc = "none"
    /\ npass' = npass + 1
    /\ outcome' = Append(outcome, [by |-> x, result |-> "running"])
    /\ last_run' = last_run
    /\ pass' = [pass EXCEPT ![x] = [NoPass EXCEPT !.pc = "fetch", !.id = npass + 1]]

\* Lines 84-85: the pass starts and records last_run.
PassBegin(x) ==
    /\ npass < (IF nstarts <= 1 THEN MaxPasses ELSE RacePasses)
    /\ pass[x].pc = "none"
    /\ npass' = npass + 1
    /\ outcome' = Append(outcome, [by |-> x, result |-> "running"])
    /\ last_run' = Some(now)
    /\ pass' = [pass EXCEPT ![x] = [NoPass EXCEPT !.pc = "fetch", !.id = npass + 1]]

\* The except clause of line 137: the exception is printed and the function
\* returns None; the connection is dropped with its uncommitted rows.
PassFailed(x) ==
    /\ outcome' = [outcome EXCEPT ![pass[x].id].result = "failed"]
    /\ pass' = [pass EXCEPT ![x].pc = "done", ![x].pending = << >>]

\* Lines 88-105: connect, fetch the active subscribers, group them by the
\* stored topics string. The connect or the SELECT may raise.
PassFetch(x) ==
    /\ pass[x].pc = "fetch"
    /\ \/ /\ PassFailed(x)
          /\ UNCHANGED newsletter_logs
       \/ LET subs == FetchActive(subscribers)
          IN  /\ IF Len(subs) = 0
                    THEN /\ outcome' = [outcome EXCEPT ![pass[x].id].result = "empty"]
                         /\ pass' = [pass EXCEPT ![x].pc = "done",
                                                  ![x].table = subscribers]
                    ELSE /\ outcome' = outcome
                         /\ pass' = [pass EXCEPT ![x].pc = "group", ![x].subs = subs,
                                                  ![x].keys = GroupKeys(subs),
                                                  ![x].table = subscribers]
              /\ UNCHANGED newsletter_logs
    /\ UNCHANGED <<last_run, npass>>

\* An iteration that logs the group only when the mail provider answered
\* its probe.
PassGroupGated(x) ==
    /\ pass[x].pc = "group"
    /\ LET f == pass[x]
           k == f.keys[Len(f.calls) + 1]
           parsed == JsonLoads(k)
           topics == parsed.value
       IN  IF ~parsed.ok
           THEN PassFailed(x)
           ELSE \E replies \in [1..Len(topics) -> Replies], email_configured \in BOOLEAN :
                LET content == generate_newsletter_content(topics, api_configured, replies, now)
                    call == [key |-> k, topics |-> topics, content |-> content]
                    rows == IF email_configured
                            THEN GroupRows(f.id, GroupEmails(f.subs, k), k, content, now)
                            ELSE << >>
                    g == [f EXCEPT !.calls = Append(f.calls, call),
                                   !.rendered = f.rendered + (IF email_configured THEN 1 ELSE 0)]
                IN  /\ pass' = [pass EXCEPT ![x] =
                            [g EXCEPT !.pending = f.pending \o rows,
                                      !.pc = IF Len(g.calls) = Len(f.keys)
                                             THEN "commit" ELSE "group"]]
                    /\ outcome' = outcome
    /\ UNCHANGED <<last_run, npass, newsletter_logs>>

\* Lines 110-130, one iteration of the loop over topic_groups: parse the key,
\* generate the group's content once, render it when the email service
\* answers its health probe, insert one row per email of the group. The
\* INSERT may raise.
PassGroup(x) ==
    /\ pass[x].pc = "group"
    /\ LET f == pass[x]
           k == f.keys[Len(f.calls) + 1]
           parsed == JsonLoads(k)
           topics == parsed.value
       IN  IF ~parsed.ok
           THEN PassFailed(x)
           ELSE \E replies \in [1..Len(topics) -> Replies], email_configured \in BOOLEAN,
                   insert_ok \in BOOLEAN :
                LET content == generate_newsletter_content(topics, api_configured, replies, now)
                    call == [key |-> k, topics |-> topics, content |-> content]
                    rows == GroupRows(f.id, GroupEmails(f.subs, k), k, content, now)
                    g == [f EXCEPT !.calls = Append(f.calls, call),
                                   !.rendered = f.rendered + (IF email_configured THEN 1 ELSE 0)]
                IN  IF insert_ok
                    THEN /\ pass' = [pass EXCEPT ![x] =
                                [g EXCEPT !.pending = f.pending \o rows,
                                          !.pc = IF Len(g.calls) = Len(f.keys)
                                                 THEN "commit" ELSE "group"]]
                         /\ outcome' = outcome
                    ELSE /\ pass' = [pass EXCEPT ![x] =
                                [g EXCEPT !.pending = << >>, !.pc = "done"]]
                         /\ outcome' = [outcome EXCEPT ![f.id].result = "failed"]
    /\ UNCHANGED <<last_run, npass, newsletter_logs>>

\* A commit that makes the rows durable and then raises.
PassCommitKeepsRows(x) ==
    /\ pass[x].pc = "commit"
    /\ \/ /\ PassFailed(x)
          /\ newsletter_logs' = newsletter_logs \o pass[x].pending
       \/ /\ newsletter_logs' = newsletter_logs \o pass[x].pending
          /\ outcome' = [outcome EXCEPT ![pass[x].id].result = "ok"]
          /\ pass' = [pass EXCEPT ![x].pc = "done", ![x].pending = << >>]
    /\ UNCHANGED <<last_run, npass>>

\* A commit that writes the table as the pass's connection saw it when it
\* opened: with its own rows, without those committed by others meanwhile.
PassCommitOverwrites(x) ==
    /\ pass[x].pc = "commit"
    /\ \/ /\ PassFailed(x)
          /\ UNCHANGED newsletter_logs
       \/ /\ newsletter_logs' =
                LET Older(r) == r.pass < pass[x].id
                IN  SelectSeq(newsletter_logs, Older) \o pass[x].pending
          /\ outcome' = [outcome EXCEPT ![pass[x].id].result = "ok"]
          /\ pass' = [pass EXCEPT ![x].pc = "done", ![x].pending = << >>]
    /\ UNCHANGED <<last_run, npass>>

\* Lines 132-133: commit the pass's rows and close. The commit may raise.
PassCommit(x) ==
    /\ pass[x].pc = "commit"
    /\ \/ /\ PassFailed(x)
          /\ UNCHANGED newsletter_logs
       \/ /\ newsletter_logs' = newsletter_logs \o pass[x].pending
          /\ outcome' = [outcome EXCEPT ![pass[x].id].result = "ok"]
          /\ pass' = [pass EXCEPT ![x].pc = "done", ![x].pending = << >>]
    /\ UNCHANGED <<last_run, npass>>

\* One step of the pass running in context x, after its first.
PassStep(x) == PassFetch(x) \/ PassGroup(x) \/ PassCommit(x)

\* ------------------------------------------------------ _update_next_run
\* The frame of _update_next_run in one calling context: the truth of
\* "if schedule.jobs" is read, then the minimum is computed, then next_run
\* is assigned.
NoUpd == [pc |-> "none", val |-> None]

MinNextRun(js) ==
    CHOOSE m \in {job_next[js[i]] : i \in 1..Len(js)} :
        \A i \in 1..Len(js) : m <= job_next[js[i]]

\* Line 76: if schedule.jobs.
UpdCheck(x) ==
    /\ upd[x].pc = "check"
    /\ upd' = [upd EXCEPT ![x] = IF Len(jobs) > 0 THEN [pc |-> "min", val |-> None]
                                  ELSE [pc |-> "assign", val |-> None]]

\* Line 77, right-hand side: min(job.next_run for job in schedule.jobs);
\* min() of an empty sequence raises ValueError (raised = TRUE).
UpdMin(x, raised) ==
    /\ upd[x].pc = "min"
    /\ raised = (Len(jobs) = 0)
    /\ upd' = [upd EXCEPT ![x] = IF raised THEN NoUpd
                                  ELSE [pc |-> "assign", val |-> Some(MinNextRun(jobs))]]

\* Lines 77 and 79: the assignment to self.next_run.
UpdAssign(x) ==
    /\ upd[x].pc = "assign"
    /\ next_run' = upd[x].val
    /\ upd' = [upd EXCEPT ![x] = NoUpd]

\* ------------------------------------------------------------ start()
\* The (success, message) pair an operation returns, and the response most
\* recently sent: the request thread that sent it and the pair.
Result(op, success, message) == [op |-> op, success |-> success, message |-> message]
NoResult == Result("none", FALSE, "")
Returned(c, result) == [caller |-> c, result |-> result]

\* A start() that does not look at is_running.
StartCallUnchecked(c) ==
    /\ cpc[c] = "idle"
    /\ nstarts < MaxStarts
    /\ nstarts' = nstarts + 1
    /\ ret' = ret
    /\ cpc' = [cpc EXCEPT ![c] = "start_clear"]
    /\ UNCHANGED <<stat, gen, nstops, nsubscribes, schedVars, threadVars, storeVars, last_run, now, upd, pass, npass,
                   outcome, newsletter_logs>>

\* Line 25: the is_running check; a running scheduler rejects the call.
StartCall(c) ==
    /\ cpc[c] = "idle"
    /\ IF is_running
       THEN /\ ret' = Returned(c, Result("start", FALSE, "Scheduler is already running"))
            /\ cpc' = [cpc EXCEPT ![c] = "idle"]
            /\ nstarts' = nstarts
       ELSE /\ nstarts < MaxStarts
            /\ nstarts' = nstarts + 1
            /\ ret' = ret
            /\ cpc' = [cpc EXCEPT ![c] = "start_clear"]
    /\ UNCHANGED <<stat, gen, nstops, nsubscribes, schedVars, threadVars, storeVars, last_run, now, upd, pass, npass,
                   outcome, newsletter_logs>>

\* Line 30: schedule.clear().
StartClear(c) ==
    /\ cpc[c] = "start_clear"
    /\ jobs' = << >>
    /\ cpc' = [cpc EXCEPT ![c] = "start_do"]
    /\ UNCHANGED <<stat, gen, is_running, next_run, job_next, njobs, threadVars, storeVars, last_run,
                   now, upd, pass, npass, outcome, newsletter_logs, ret, countVars>>

\* Line 31: schedule.every().monday.at("09:00").do(...): a new job, scheduled
\* for the next firing instant, is appended to the job list.
StartDo(c) ==
    /\ cpc[c] = "start_do"
    /\ njobs' = njobs + 1
    /\ job_next' = [job_next EXCEPT ![njobs + 1] = NextFiring(now)]
    /\ jobs' = Append(jobs, njobs + 1)
    /\ cpc' = [cpc EXCEPT ![c] = "start_update"]
    /\ upd' = [upd EXCEPT ![c] = [pc |-> "check", val |-> None]]
    /\ UNCHANGED <<stat, gen, is_running, next_run, threadVars, storeVars, last_run, now, pass, npass,
                   outcome, newsletter_logs, ret, countVars>>

\* Line 34: self._update_next_run(), step by step. A ValueError raised in it
\* is caught at line 42 and start() returns failure.
StartUpdate(c) ==
    /\ cpc[c] = "start_update"
    /\ \/ /\ UpdCheck(c)
          /\ UNCHANGED <<cpc, ret, next_run>>
       \/ /\ UpdMin(c, FALSE)
          /\ UNCHANGED <<cpc, ret, next_run>>
       \/ /\ UpdMin(c, TRUE)
          /\ cpc' = [cpc EXCEPT ![c] = "idle"]
          /\ ret' = Returned(c, Result("start", FALSE, "Failed to start scheduler"))
          /\ UNCHANGED next_run
       \/ /\ UpdAssign(c)
          /\ cpc' = [cpc EXCEPT ![c] = "start_set"]
          /\ UNCHANGED ret
    /\ UNCHANGED <<stat, gen, is_running, jobs, job_next, njobs, threadVars, storeVars, last_run, now,
                   pass, npass, outcome, newsletter_logs, countVars>>

\* Line 37: self.is_running = True.
StartSet(c) ==
    /\ cpc[c] = "start_set"
    /\ is_running' = TRUE
    /\ cpc' = [cpc EXCEPT ![c] = "start_thread"]
    /\ UNCHANGED <<stat, gen, next_run, jobs, job_next, njobs, threadVars, storeVars, last_run, now,
                   upd, pass, npass, outcome, newsletter_logs, ret, countVars>>

\* Lines 38-41: the loop thread is created and started; start() returns success.
StartThread(c) ==
    /\ cpc[c] = "start_thread"
    /\ nthreads' = nthreads + 1
    /\ tpc' = [tpc EXCEPT ![NumCallers + nthreads + 1] = "while"]
    /\ cpc' = [cpc EXCEPT ![c] = "idle"]
    /\ ret' = Returned(c, Result("start", TRUE, "Scheduler started successfully"))
    /\ UNCHANGED <<stat, gen, schedVars, trun, storeVars, last_run, now, upd, pass, npass, outcome,
                   newsletter_logs, countVars>>

\* Line 39 raises (threading.Thread.start cannot start a new thread): the
\* handler of line 42 returns failure. Lines 30-37 have run by then.
StartThreadFails(c) ==
    /\ cpc[c] = "start_thread"
    /\ cpc' = [cpc EXCEPT ![c] = "idle"]
    /\ ret' = Returned(c, Result("start", FALSE, "Failed to start scheduler"))
    /\ UNCHANGED <<stat, gen, schedVars, threadVars, storeVars, last_run, now, upd, pass, npass,
                   outcome, newsletter_logs, countVars>>

\* self.scheduler_thread: the thread started last.
scheduler_thread == IF nthreads = 0 THEN None ELSE Some(NumCallers + nthreads)

\* ------------------------------------------------------------- stop()
\* A stop() that does not look at is_running.
StopCallUnchecked(c) ==
    /\ cpc[c] = "idle"
    /\ nstops < MaxStops
    /\ nstops' = nstops + 1
    /\ ret' = ret
    /\ cpc' = [cpc EXCEPT ![c] = "stop_set"]
    /\ UNCHANGED <<stat, gen, nstarts, nsubscribes, schedVars, threadVars, storeVars, last_run, now, upd, pass, npass,
                   outcome, newsletter_logs>>

\* Line 47: the is_running check; a stopped scheduler rejects the call.
StopCall(c) ==
    /\ cpc[c] = "idle"
    /\ IF ~is_running
       THEN /\ ret' = Returned(c, Result("stop", FALSE, "Scheduler is not running"))
            /\ cpc' = [cpc EXCEPT ![c] = "idle"]
            /\ nstops' = nstops
       ELSE /\ nstops < MaxStops
            /\ nstops' = nstops + 1
            /\ ret' = ret
            /\ cpc' = [cpc EXCEPT ![c] = "stop_set"]
    /\ UNCHANGED <<stat, gen, nstarts, nsubscribes, schedVars, threadVars, storeVars, last_run, now, upd, pass, npass,
                   outcome, newsletter_logs>>

\* A stop() that also ends every pass in progress when it clears the flag.
StopSetAborts(c) ==
    /\ cpc[c] = "stop_set"
    /\ is_running' = FALSE
    /\ cpc' = [cpc EXCEPT ![c] = "stop_clear"]
    /\ pass' = [x \in Ctxs |-> IF InPass(x) THEN [pass[x] EXCEPT !.pc = "done"] ELSE pass[x]]
    /\ outcome' = [i \in 1..Len(outcome) |->
                       IF outcome[i].result = "running"
                       THEN [outcome[i] EXCEPT !.result = "failed"] ELSE outcome[i]]
    /\ UNCHANGED <<stat, gen, next_run, jobs, job_next, njobs, threadVars, storeVars, last_run, now,
                   upd, npass, newsletter_logs, ret, countVars>>

\* Line 50: self.is_running = False.
StopSet(c) ==
    /\ cpc[c] = "stop_set"
    /\ is_running' = FALSE
    /\ cpc' = [cpc EXCEPT ![c] = "stop_clear"]
    /\ UNCHANGED <<stat, gen, next_run, jobs, job_next, njobs, threadVars, storeVars, last_run, now,
                   upd, pass, npass, outcome, newsletter_logs, ret, countVars>>

\* Line 51: schedule.clear().
StopClear(c) ==
    /\ cpc[c] = "stop_clear"
    /\ jobs' = << >>
    /\ cpc' = [cpc EXCEPT ![c] = "stop_next"]
    /\ UNCHANGED <<stat, gen, is_running, next_run, job_next, njobs, threadVars, storeVars, last_run,
                   now, upd, pass, npass, outcome, newsletter_logs, ret, countVars>>

\* Lines 52-54: self.next_run = None; stop() returns success.
StopNext(c) ==
    /\ cpc[c] = "stop_next"
    /\ next_run' = None
    /\ cpc' = [cpc EXCEPT ![c] = "idle"]
    /\ ret' = Returned(c, Result("stop", TRUE, "Scheduler stopped successfully"))
    /\ UNCHANGED <<stat, gen, is_running, jobs, job_next, njobs, threadVars, storeVars, last_run, now,
                   upd, pass, npass, outcome, newsletter_logs, countVars>>

\* --------------------------------------------------------- get_status()
\* The frame of get_status in one request thread: the values of the dict
\* evaluated so far.
NoStat == [running |-> FALSE, last_run |-> None, next_run |-> None]

\* The handler's response: the four fields of the dict, or the 500 answer
\* to an exception raised in get_status.
StatusResponse(running, last, next, njob) ==
    [op |-> "status", success |-> TRUE, running |-> running, last_run |-> last,
     next_run |-> next, scheduled_jobs |-> njob]
StatusError == [op |-> "status", success |-> FALSE, message |-> "Internal server error"]

\* Line 59: 'running': self.is_running.
StatusCall(c) ==
    /\ cpc[c] = "idle"
    /\ stat' = [stat EXCEPT ![c] = [NoStat EXCEPT !.running = is_running]]
    /\ cpc' = [cpc EXCEPT ![c] = "status_last"]
    /\ UNCHANGED <<gen, schedVars, threadVars, storeVars, last_run, now, upd, pass, npass, outcome,
                   newsletter_logs, ret, countVars>>

\* Line 60: self.last_run.isoformat() if self.last_run else None. last_run
\* is never reset to None, so the two reads of the attribute are one step.
StatusLast(c) ==
    /\ cpc[c] = "status_last"
    /\ stat' = [stat EXCEPT ![c].last_run = last_run]
    /\ cpc' = [cpc EXCEPT ![c] = "status_next"]
    /\ UNCHANGED <<gen, schedVars, threadVars, storeVars, last_run, now, upd, pass, npass, outcome,
                   newsletter_logs, ret, countVars>>

\* Line 61, the condition: if self.next_run.
StatusNextTest(c) ==
    /\ cpc[c] = "status_next"
    /\ cpc' = [cpc EXCEPT ![c] = IF next_run # None THEN "status_next_use" ELSE "status_jobs"]
    /\ UNCHANGED <<gen, schedVars, threadVars, storeVars, last_run, now, upd, pass, npass, outcome,
                   newsletter_logs, ret, countVars, stat>>

\* Line 61, the value: self.next_run.isoformat(), a second read of the
\* attribute; on None it raises AttributeError and the request is answered
\* with 500.
StatusNextUse(c) ==
    /\ cpc[c] = "status_next_use"
    /\ IF next_run # None
       THEN /\ stat' = [stat EXCEPT ![c].next_run = next_run]
            /\ cpc' = [cpc EXCEPT ![c] = "status_jobs"]
            /\ ret' = ret
       ELSE /\ stat' = [stat EXCEPT ![c] = NoStat]
            /\ cpc' = [cpc EXCEPT ![c] = "idle"]
            /\ ret' = Returned(c, StatusError)
    /\ UNCHANGED <<gen, schedVars, threadVars, storeVars, last_run, now, upd, pass, npass, outcome,
                   newsletter_logs, countVars>>

\* Lines 62-63: 'scheduled_jobs': len(schedule.jobs), and the return.
StatusJobs(c) ==
    /\ cpc[c] = "status_jobs"
    /\ ret' = Returned(c, StatusResponse(stat[c].running, stat[c].last_run,
                                         stat[c].next_run, Len(jobs)))
    /\ stat' = [stat EXCEPT ![c] = NoStat]
    /\ cpc' = [cpc EXCEPT ![c] = "idle"]
    /\ UNCHANGED <<gen, schedVars, threadVars, storeVars, last_run, now, upd, pass, npass, outcome,
                   newsletter_logs, countVars>>

\* --------------------------------------------------------- manual_run()
\* Line 143, entering _generate_and_send_newsletters.
ManualRun(c) ==
    /\ cpc[c] = "idle"
    /\ PassBegin(c)
    /\ cpc' = [cpc EXCEPT ![c] = "manual_run"]
    /\ ret' = ret
    /\ UNCHANGED <<stat, gen, schedVars, threadVars, storeVars, now, upd, newsletter_logs, countVars>>

ManualStep(c) ==
    /\ cpc[c] = "manual_run"
    /\ PassStep(c)
    /\ UNCHANGED <<stat, gen, schedVars, threadVars, storeVars, now, upd, cpc, ret, countVars>>

\* A manual_run that unregisters the recurring rule when its pass is over.
ManualReturnClearsSchedule(c) ==
    /\ cpc[c] = "manual_run"
    /\ pass[c].pc = "done"
    /\ pass' = [pass EXCEPT ![c] = NoPass]
    /\ cpc' = [cpc EXCEPT ![c] = "idle"]
    /\ ret' = Returned(c, Result("manual_run", TRUE, "Newsletter generation completed successfully"))
    /\ jobs' = << >>
    /\ next_run' = None
    /\ UNCHANGED <<stat, gen, is_running, job_next, njobs, threadVars, storeVars, last_run, now, upd,
                   npass, outcome, newsletter_logs, countVars>>

\* Lines 143-146: _generate_and_send_newsletters has returned (it catches
\* every Exception itself, so the except clause of manual_run is never
\* entered) and manual_run returns success.
ManualReturn(c) ==
    /\ cpc[c] = "manual_run"
    /\ pass[c].pc = "done"
    /\ pass' = [pass EXCEPT ![c] = NoPass]
    /\ cpc' = [cpc EXCEPT ![c] = "idle"]
    /\ ret' = Returned(c, Result("manual_run", TRUE, "Newsletter generation completed successfully"))
    /\ UNCHANGED <<stat, gen, schedVars, threadVars, storeVars, last_run, now, upd, npass, outcome,
                   newsletter_logs, countVars>>

\* ------------------------------------------- generate_newsletters (main.py)
\* DATE(sent_at) and DATE("now"): the clock's unit is no shorter than a day,
\* so two instants fall on one date exactly when they are the same instant.
DateOf(t) == t

\* SELECT COUNT(*) FROM newsletter_logs WHERE DATE(sent_at) = DATE("now").
TodayCount ==
    LET Today(r) == DateOf(r.sent_at) = DateOf(now)
    IN  Len(SelectSeq(newsletter_logs, Today))

\* SELECT COUNT(DISTINCT subscriber_email) ... WHERE DATE(sent_at) = DATE("now").
TodaySubscribers ==
    Cardinality({newsletter_logs[i].subscriber_email :
                    i \in {j \in 1..Len(newsletter_logs) :
                              DateOf(newsletter_logs[j].sent_at) = DateOf(now)}})

\* The JSON body of the handler's 200 response.
GenerateResponse(message, generated, reached) ==
    [op |-> "generate_newsletters", success |-> TRUE, message |-> message,
     newsletters_generated |-> generated, subscribers_reached |-> reached]

\* Line 331: the handler calls manual_run, which enters the pass.
GenerateCall(c) ==
    /\ cpc[c] = "idle"
    /\ PassBegin(c)
    /\ cpc' = [cpc EXCEPT ![c] = "generate_run"]
    /\ ret' = ret
    /\ UNCHANGED <<stat, gen, schedVars, threadVars, storeVars, now, upd, newsletter_logs, countVars>>

GenerateStep(c) ==
    /\ cpc[c] = "generate_run"
    /\ PassStep(c)
    /\ UNCHANGED <<stat, gen, schedVars, threadVars, storeVars, now, upd, cpc, ret, countVars>>

\* Lines 331-333: manual_run has returned (True, message), as it always does.
GenerateReturned(c) ==
    /\ cpc[c] = "generate_run"
    /\ pass[c].pc = "done"
    /\ cpc' = [cpc EXCEPT ![c] = "generate_count"]
    /\ UNCHANGED <<stat, gen, schedVars, threadVars, storeVars, last_run, now, upd, pass, npass, outcome,
                   newsletter_logs, ret, countVars>>

\* Lines 335-351: the two counts over today's rows and the response.
GenerateCount(c) ==
    /\ cpc[c] = "generate_count"
    /\ pass' = [pass EXCEPT ![c] = NoPass]
    /\ cpc' = [cpc EXCEPT ![c] = "idle"]
    /\ ret' = Returned(c, GenerateResponse("Newsletter generation completed successfully",
                                            TodayCount, TodaySubscribers))
    /\ UNCHANGED <<stat, gen, schedVars, threadVars, storeVars, last_run, now, upd, npass, outcome,
                   newsletter_logs, countVars>>

\* ------------------------------------------------------ _run_scheduler
\* sorted(): a stable insertion of job j into a list ordered by next_run.
RECURSIVE InsertByNextRun(_, _)
InsertByNextRun(sorted, j) ==
    IF Len(sorted) = 0 THEN <<j>>
    ELSE IF job_next[sorted[Len(sorted)]] <= job_next[j] THEN Append(sorted, j)
    ELSE Append(InsertByNextRun(SubSeq(sorted, 1, Len(sorted) - 1), j), sorted[Len(sorted)])

RECURSIVE SortedJobs(_)
SortedJobs(js) ==
    IF Len(js) = 0 THEN << >>
    ELSE InsertByNextRun(SortedJobs(SubSeq(js, 1, Len(js) - 1)), js[Len(js)])

\* Job.should_run: datetime.now() >= self.next_run.
ShouldRun(j) == now >= job_next[j]

\* run_pending's work list: the due jobs of the job list, sorted.
RunnableJobs == SortedJobs(SelectSeq(jobs, ShouldRun))

\* Line 67: while self.is_running.
LoopWhile(t) ==
    /\ tpc[t] = "while"
    /\ tpc' = [tpc EXCEPT ![t] = IF is_running THEN "pending" ELSE "exited"]
    /\ UNCHANGED <<stat, gen, schedVars, trun, nthreads, storeVars, last_run, now, upd, pass, npass,
                   outcome, newsletter_logs, cpc, ret, countVars>>

\* Line 68: schedule.run_pending() collects the due jobs.
LoopPending(t) ==
    /\ tpc[t] = "pending"
    /\ trun' = [trun EXCEPT ![t] = RunnableJobs]
    /\ tpc' = [tpc EXCEPT ![t] = IF Len(RunnableJobs) = 0 THEN "sleep" ELSE "job"]
    /\ UNCHANGED <<stat, gen, schedVars, nthreads, storeVars, last_run, now, upd, pass, npass,
                   outcome, newsletter_logs, cpc, ret, countVars>>

\* run_pending calls Job.run of the next due job, which calls
\* _generate_and_send_newsletters.
LoopRunJob(t) ==
    /\ tpc[t] = "job"
    /\ Len(trun[t]) > 0
    /\ PassBegin(t)
    /\ UNCHANGED <<stat, gen, schedVars, threadVars, storeVars, now, upd, newsletter_logs, cpc, ret,
                   countVars>>

LoopPassStep(t) ==
    /\ tpc[t] = "job"
    /\ PassStep(t)
    /\ UNCHANGED <<stat, gen, schedVars, threadVars, storeVars, now, upd, cpc, ret, countVars>>

\* A pass whose exception is not caught: it leaves Job.run and run_pending
\* and ends the thread, the job not rescheduled.
LoopJobDoneRaises(t) ==
    /\ tpc[t] = "job"
    /\ pass[t].pc = "done"
    /\ pass' = [pass EXCEPT ![t] = NoPass]
    /\ IF outcome[pass[t].id].result = "failed"
       THEN /\ tpc' = [tpc EXCEPT ![t] = "crashed"]
            /\ UNCHANGED <<job_next, trun>>
       ELSE /\ job_next' = [job_next EXCEPT ![Head(trun[t])] = NextFiring(now)]
            /\ trun' = [trun EXCEPT ![t] = Tail(trun[t])]
            /\ tpc' = [tpc EXCEPT ![t] = IF Len(trun[t]) = 1 THEN "sleep" ELSE "job"]
    /\ UNCHANGED <<stat, gen, is_running, next_run, jobs, njobs, nthreads, storeVars, last_run, now,
                   upd, npass, outcome, newsletter_logs, cpc, ret, countVars>>

\* The job function has returned None: Job.run reschedules the job (whether
\* or not it is still on the job list) and run_pending goes on to the next
\* due job, or returns.
LoopJobDone(t) ==
    /\ tpc[t] = "job"
    /\ pass[t].pc = "done"
    /\ pass' = [pass EXCEPT ![t] = NoPass]
    /\ job_next' = [job_next EXCEPT ![Head(trun[t])] = NextFiring(now)]
    /\ trun' = [trun EXCEPT ![t] = Tail(trun[t])]
    /\ tpc' = [tpc EXCEPT ![t] = IF Len(trun[t]) = 1 THEN "sleep" ELSE "job"]
    /\ UNCHANGED <<stat, gen, is_running, next_run, jobs, njobs, nthreads, storeVars, last_run, now,
                   upd, npass, outcome, newsletter_logs, cpc, ret, countVars>>

\* Lines 69-71: the thread wakes from time.sleep(60) and reads
\* self.is_running.
LoopIf(t) ==
    /\ tpc[t] = "sleep"
    /\ IF is_running
       THEN /\ tpc' = [tpc EXCEPT ![t] = "update"]
            /\ upd' = [upd EXCEPT ![t] = [pc |-> "check", val |-> None]]
       ELSE /\ tpc' = [tpc EXCEPT ![t] = "while"]
            /\ upd' = upd
    /\ UNCHANGED <<stat, gen, schedVars, trun, nthreads, storeVars, last_run, now, pass, npass,
                   outcome, newsletter_logs, cpc, ret, countVars>>

\* Line 72: self._update_next_run(), step by step. Nothing in the loop
\* catches a ValueError raised in it: the thread ends.
LoopUpdate(t) ==
    /\ tpc[t] = "update"
    /\ \/ /\ UpdCheck(t)
          /\ UNCHANGED <<tpc, next_run>>
       \/ /\ UpdMin(t, FALSE)
          /\ UNCHANGED <<tpc, next_run>>
       \/ /\ UpdMin(t, TRUE)
          /\ tpc' = [tpc EXCEPT ![t] = "crashed"]
          /\ UNCHANGED next_run
       \/ /\ UpdAssign(t)
          /\ tpc' = [tpc EXCEPT ![t] = "while"]
    /\ UNCHANGED <<stat, gen, is_running, jobs, job_next, njobs, trun, nthreads, storeVars, last_run,
                   now, pass, npass, outcome, newsletter_logs, cpc, ret, countVars>>

\* ------------------------------------------------------------ subscribe
\* A subscribe that keys the row by the email as given in the request.
SubscribeAsGiven(c, email, topics) ==
    /\ cpc[c] = "idle"
    /\ cpc' = [cpc EXCEPT ![c] = "idle"]
    /\ IF email = EmptyEmail
       THEN /\ subscribers' = subscribers
            /\ nsubscribes' = nsubscribes
            /\ ret' = Returned(c, Result("subscribe", FALSE, "Email is required"))
       ELSE IF validate_topics(topics)
       THEN /\ nsubscribes < MaxSubscribes
            /\ nsubscribes' = nsubscribes + 1
            /\ subscribers' = [subscribers EXCEPT ![email] = Row(JsonDumps(topics), TRUE)]
            /\ ret' = Returned(c, Result("subscribe", TRUE,
                                IF subscribers[email].present
                                THEN "Subscription updated successfully"
                                ELSE "Successfully subscribed to AI newsletter"))
       ELSE /\ subscribers' = subscribers
            /\ nsubscribes' = nsubscribes
            /\ ret' = Returned(c, Result("subscribe", FALSE, "Invalid topics"))
    /\ UNCHANGED <<stat, gen, nstarts, nstops, schedVars, threadVars, api_configured, last_run, now, upd, pass, npass,
                   outcome, newsletter_logs>>

\* subscribe (main.py lines 107-172): the email is stripped and lower-cased
\* (line 116); an empty email or an invalid topic list is rejected (lines
\* 120-129); otherwise the row of the email is updated with the new topics and
\* active = 1 when the SELECT finds one (lines 138-146), or inserted, active
\* by default (lines 149-152, line 58).
Subscribe(c, email, topics) ==
    /\ cpc[c] = "idle"
    /\ cpc' = [cpc EXCEPT ![c] = "idle"]
    /\ LET key == NormalizeEmail(email)
       IN  IF email = EmptyEmail
           THEN /\ subscribers' = subscribers
                /\ nsubscribes' = nsubscribes
                /\ ret' = Returned(c, Result("subscribe", FALSE, "Email is required"))
           ELSE IF validate_topics(topics)
           THEN /\ nsubscribes < MaxSubscribes
                /\ nsubscribes' = nsubscribes + 1
                /\ subscribers' = [subscribers EXCEPT ![key] = Row(JsonDumps(topics), TRUE)]
                /\ ret' = Returned(c, Result("subscribe", TRUE,
                                    IF subscribers[key].present
                                    THEN "Subscription updated successfully"
                                    ELSE "Successfully subscribed to AI newsletter"))
           ELSE /\ subscribers' = subscribers
                /\ nsubscribes' = nsubscribes
                /\ ret' = Returned(c, Result("subscribe", FALSE, "Invalid topics"))
    /\ UNCHANGED <<stat, gen, nstarts, nstops, schedVars, threadVars, api_configured, last_run, now, upd, pass, npass,
                   outcome, newsletter_logs>>

\* ------------------------------------------------------------ the clock
Tick ==
    /\ now < (IF nstarts <= 1 THEN MaxTime ELSE RaceTime)
    /\ now' = now + 1
    /\ UNCHANGED <<stat, gen, schedVars, threadVars, storeVars, last_run, upd, pass, npass, outcome,
                   newsletter_logs, cpc, ret, countVars>>

\* ------------------------------------------------------- specifications
\* The state after construction (NewsletterScheduler.__init__, lines 14-21),
\* with the schedule module freshly imported.
InitScheduler ==
    /\ gen = NoGen
    /\ is_running = FALSE
    /\ last_run = None
    /\ next_run = None
    /\ jobs = << >>
    /\ job_next = [j \in JobIds |-> 0]
    /\ njobs = 0
    /\ now = 0
    /\ cpc = [c \in Callers |-> "idle"]
    /\ ret = Returned(0, NoResult)
    /\ tpc = [t \in Threads |-> "unborn"]
    /\ trun = [t \in Threads |-> << >>]
    /\ nthreads = 0
    /\ upd = [x \in Ctxs |-> NoUpd]
    /\ pass = [x \in Ctxs |-> NoPass]
    /\ npass = 0
    /\ outcome = << >>
    /\ newsletter_logs = << >>
    /\ nstarts = 0
    /\ nstops = 0
    /\ nsubscribes = 0
    /\ stat = [c \in Callers |-> NoStat]

\* The scheduler's life cycle over a database that holds one shared topic
\* list: concurrent start and stop requests, the loop threads with the passes
\* they run, the clock.
LifecycleTable ==
    [a \in Addresses |->
        IF a \in Emails THEN Row(JsonDumps(<<"LLMs released this week">>), TRUE) ELSE NoRow]

Init ==
    /\ InitScheduler
    /\ subscribers = LifecycleTable
    /\ api_configured = FALSE

Next ==
    \/ \E c \in Callers : StartCall(c)
    \/ \E c \in Callers : StartClear(c)
    \/ \E c \in Callers : StartDo(c)
    \/ \E c \in Callers : StartUpdate(c)
    \/ \E c \in Callers : StartSet(c)
    \/ \E c \in Callers : StartThread(c)
    \/ \E c \in Callers : StopCall(c)
    \/ \E c \in Callers : StopSet(c)
    \/ \E c \in Callers : StopClear(c)
    \/ \E c \in Callers : StopNext(c)
    \/ \E t \in Threads : LoopWhile(t)
    \/ \E t \in Threads : LoopPending(t)
    \/ \E t \in Threads : LoopRunJob(t)
    \/ \E t \in Threads : LoopPassStep(t)
    \/ \E t \in Threads : LoopJobDone(t)
    \/ \E t \in Threads : LoopIf(t)
    \/ \E t \in Threads : LoopUpdate(t)
    \/ Tick

Spec == Init /\ [][Next]_vars

\* Some step of loop thread t.
LoopStep(t) ==
    \/ LoopWhile(t)
    \/ LoopPending(t)
    \/ LoopRunJob(t)
    \/ LoopPassStep(t)
    \/ LoopJobDone(t)
    \/ LoopIf(t)
    \/ LoopUpdate(t)

\* The life cycle with the threads scheduled fairly: a started loop thread
\* that can take a step eventually takes one (time.sleep returns, the
\* interpreter switches threads).
SpecLive == Init /\ [][Next]_vars /\ \A t \in Threads : WF_vars(LoopStep(t))

\* The generation pass over every database, on a stopped scheduler: one
\* request thread issues manual_run requests while another issues subscribe
\* requests.
Operator == 1
Subscriber == NumCallers

InitPass ==
    /\ InitScheduler
    /\ subscribers \in Tables
    /\ api_configured \in BOOLEAN

NextPass ==
    \/ \E e \in Emails, l \in RequestLists : Subscribe(Subscriber, e, l)
    \/ ManualRun(Operator)
    \/ ManualStep(Operator)
    \/ ManualReturn(Operator)

SpecPass == InitPass /\ [][NextPass]_vars

\* The manual trigger over every database, on a stopped scheduler, across
\* days: one request thread posts generate-newsletters while another
\* subscribes.
InitTrigger ==
    /\ InitScheduler
    /\ subscribers \in Tables
    /\ api_configured = FALSE

NextTrigger ==
    \/ \E e \in Emails, l \in RequestLists : Subscribe(Subscriber, e, l)
    \/ GenerateCall(Operator)
    \/ GenerateStep(Operator)
    \/ GenerateReturned(Operator)
    \/ GenerateCount(Operator)
    \/ Tick

SpecTrigger == InitTrigger /\ [][NextTrigger]_vars

\* The operations that do not drive the life cycle, beside it: one request
\* thread starts the scheduler once and stops it while another calls
\* manual_run and get_status, with the loop thread and the clock running.
Observer == NumCallers

NextApi ==
    \/ StartCall(Operator) /\ nstarts' <= 1
    \/ StartClear(Operator)
    \/ StartDo(Operator)
    \/ StartUpdate(Operator)
    \/ StartSet(Operator)
    \/ StartThread(Operator)
    \/ StopCall(Operator)
    \/ StopSet(Operator)
    \/ StopClear(Operator)
    \/ StopNext(Operator)
    \/ \E t \in Threads : LoopWhile(t)
    \/ \E t \in Threads : LoopPending(t)
    \/ \E t \in Threads : LoopRunJob(t)
    \/ \E t \in Threads : LoopPassStep(t)
    \/ \E t \in Threads : LoopJobDone(t)
    \/ \E t \in Threads : LoopIf(t)
    \/ \E t \in Threads : LoopUpdate(t)
    \/ ManualRun(Observer)
    \/ ManualStep(Observer)
    \/ ManualReturn(Observer)
    \/ StatusCall(Observer)
    \/ StatusLast(Observer)
    \/ StatusNextTest(Observer)
    \/ StatusNextUse(Observer)
    \/ StatusJobs(Observer)
    \/ Tick

SpecApi == Init /\ [][NextApi]_vars

\* The life cycle driven by one request thread that starts the scheduler
\* once, the launch of the loop thread succeeding or not, and stops it.
NextLaunch ==
    \/ StartCall(Operator) /\ nstarts' <= 1
    \/ StartClear(Operator)
    \/ StartDo(Operator)
    \/ StartUpdate(Operator)
    \/ StartSet(Operator)
    \/ StartThread(Operator)
    \/ StartThreadFails(Operator)
    \/ StopCall(Operator)
    \/ StopSet(Operator)
    \/ StopClear(Operator)
    \/ StopNext(Operator)
    \/ \E t \in Threads : LoopWhile(t)
    \/ \E t \in Threads : LoopPending(t)
    \/ \E t \in Threads : LoopRunJob(t)
    \/ \E t \in Threads : LoopPassStep(t)
    \/ \E t \in Threads : LoopJobDone(t)
    \/ \E t \in Threads : LoopIf(t)
    \/ \E t \in Threads : LoopUpdate(t)
    \/ Tick

SpecLaunch == Init /\ [][NextLaunch]_vars

\* The subscription store under requests that carry any email value, with a
\* request thread running manual passes beside them.
InitStore ==
    /\ InitScheduler
    /\ subscribers \in Tables
    /\ api_configured = FALSE

NextStore ==
    \/ \E a \in RequestEmails, l \in RequestLists : Subscribe(Subscriber, a, l)
    \/ ManualRun(Operator)
    \/ ManualStep(Operator)
    \/ ManualReturn(Operator)

SpecStore == InitStore /\ [][NextStore]_vars

\* ------------------------------------------------- the content generator
\* The topic lists a caller can hand to generate_newsletter_content: one or
\* two topics, known to the generator's tables or not.
ContentTopics == AVAILABLE_TOPICS \cup {OtherTopic}
TopicLists ==
    {<<a>> : a \in ContentTopics} \cup {<<a, b>> : a \in ContentTopics, b \in ContentTopics}

\* generate_newsletter_content(topics) is called; replies[i] is what the
\* request for the i-th topic will come to, should it be made.
ContentCall(topics, replies) ==
    /\ gen.pc \in {"none", "returned"}
    /\ gen' = [pc |-> "called", topics |-> topics, replies |-> replies, content |-> << >>]
    /\ UNCHANGED <<stat, schedVars, threadVars, storeVars, last_run, now, upd, pass, npass,
                   outcome, newsletter_logs, cpc, ret, countVars>>

\* Lines 128-144: the call returns the content value.
ContentReturn ==
    /\ gen.pc = "called"
    /\ gen' = [gen EXCEPT !.pc = "returned",
                          !.content = generate_newsletter_content(gen.topics, api_configured,
                                                                  gen.replies, now)]
    /\ UNCHANGED <<stat, schedVars, threadVars, storeVars, last_run, now, upd, pass, npass,
                   outcome, newsletter_logs, cpc, ret, countVars>>

InitContent ==
    /\ InitScheduler
    /\ subscribers = LifecycleTable
    /\ api_configured \in BOOLEAN

NextContent ==
    \/ \E topics \in TopicLists :
          \E replies \in [1..Len(topics) -> Replies] : ContentCall(topics, replies)
    \/ ContentReturn

SpecContent == InitContent /\ [][NextContent]_vars

\* ================================================================ claims

\* The stored topic strings of the subscribers that are active in table tbl.
ActiveStrings(tbl) == {tbl[e].topics : e \in {d \in Emails : tbl[d].present /\ tbl[d].active}}

\* The pass of frame f ran to its end without an exception.
Completed(f) ==
    \/ f.pc = "commit"
    \/ f.pc = "done" /\ outcome[f.id].result \in {"ok", "empty"}

\* C1: a generation pass calls the Content Provider once per distinct stored
\* topics string among the active subscribers it fetched, never once per
\* subscriber: in every state of a pass the calls made so far are for
\* pairwise different strings of active subscribers, each call is given the
\* list its string parses to, and a pass that ran to its end has made as many
\* calls as there are distinct strings (the same topics in another order are
\* another string and another call).
C1_OneCallPerTopicString ==
    \A x \in Ctxs :
        pass[x].pc # "none" =>
            LET f == pass[x]
                n == Len(f.calls)
            IN  /\ \A i, j \in 1..n : i # j => f.calls[i].key # f.calls[j].key
                /\ \A i \in 1..n : /\ f.calls[i].key \in ActiveStrings(f.table)
                                   /\ JsonDumps(f.calls[i].topics) = f.calls[i].key
                /\ Completed(f) => n = Cardinality(ActiveStrings(f.table))

RowsOfPass(pid) ==
    LET OfPass(r) == r.pass = pid
    IN  SelectSeq(newsletter_logs, OfPass)

\* C1 witness: the second pass of a run ended well after two calls for two
\* subscribers holding the same two topics in different orders, and the first
\* pass had logged two subscribers under one string.
C1_Witness ==
    \E x \in Ctxs :
        /\ pass[x].pc = "done"
        /\ pass[x].id = 2
        /\ outcome[2].result = "ok"
        /\ Len(pass[x].subs) = 2
        /\ Len(pass[x].calls) = 2
        /\ pass[x].calls[1].topics = <<"LLMs released this week", "Coding tools and IDEs">>
        /\ pass[x].calls[2].topics = <<"Coding tools and IDEs", "LLMs released this week">>
        /\ outcome[1].result = "ok"
        /\ Len(RowsOfPass(1)) = 2
        /\ RowsOfPass(1)[1].topics = RowsOfPass(1)[2].topics
        /\ RowsOfPass(1)[1].content = RowsOfPass(1)[2].content

\* The last pass context x began.
LastPassBy(x) ==
    CHOOSE i \in 1..Len(outcome) :
        /\ outcome[i].by = x
        /\ \A j \in 1..Len(outcome) : outcome[j].by = x => j <= i

\* C8: when the pass run by manual_run hit an unhandled failure (the store
\* or the run log raised), manual_run returns failure.
C8_FailedPassReportsFailure ==
    \A c \in Callers :
        (ret.caller = c /\ ret.result.op = "manual_run"
            /\ outcome[LastPassBy(c)].result = "failed")
            => ~ret.result.success

\* C10: a pass that completed without failure has appended exactly one row
\* for each subscriber that was active when it fetched them and none for
\* anyone else; the row carries the subscriber's stored topics string,
\* success = true and the content of the call made for that string, so the
\* rows of one group carry identical content.
C10_OneRowPerActiveSubscriber ==
    \A x \in Ctxs :
        (pass[x].pc = "done" /\ outcome[pass[x].id].result = "ok") =>
            LET f == pass[x]
                rows == RowsOfPass(f.id)
            IN  /\ \A e \in Emails :
                    LET Mine(r) == r.subscriber_email = e
                        mine == SelectSeq(rows, Mine)
                    IN  IF f.table[e].present /\ f.table[e].active
                        THEN /\ Len(mine) = 1
                             /\ mine[1].topics = f.table[e].topics
                             /\ mine[1].success = TRUE
                             /\ \E i \in 1..Len(f.calls) :
                                    /\ f.calls[i].key = f.table[e].topics
                                    /\ mine[1].content = DumpContent(f.calls[i].content)
                        ELSE Len(mine) = 0
                /\ \A i, j \in 1..Len(rows) :
                    rows[i].topics = rows[j].topics => rows[i].content = rows[j].content

\* C10 witness: the second pass of a run completed and logged two subscribers
\* of one group after the first pass had logged its own rows.
C10_Witness ==
    \E x \in Ctxs :
        /\ pass[x].pc = "done"
        /\ pass[x].id = 2
        /\ outcome[2].result = "ok"
        /\ Len(RowsOfPass(2)) = 2
        /\ RowsOfPass(2)[1].topics = RowsOfPass(2)[2].topics
        /\ RowsOfPass(2)[1].subscriber_email # RowsOfPass(2)[2].subscriber_email
        /\ Len(RowsOfPass(1)) > 0

\* No request is inside start() or stop().
CallersIdle == \A c \in Callers : cpc[c] = "idle"

AlreadyRunning == Result("start", FALSE, "Scheduler is already running")
NotRunning == Result("stop", FALSE, "Scheduler is not running")

\* C2: start() invoked while the scheduler is running returns failure
\* (already running) at once and leaves is_running true and the job list,
\* the jobs' firing times, next_run and the loop threads as they were.
C2_StartWhileRunningRejected ==
    [][ \A c \in Callers :
            (StartCall(c) /\ is_running) =>
                /\ ret' = Returned(c, AlreadyRunning)
                /\ cpc'[c] = "idle"
                /\ is_running'
                /\ UNCHANGED <<jobs, job_next, next_run, nthreads, tpc, scheduler_thread>>
      ]_vars

\* C2 witness: a start() was rejected while the scheduler runs with its rule
\* registered and its loop thread started.
C2_Witness ==
    \E c \in Callers :
        /\ ret = Returned(c, AlreadyRunning)
        /\ is_running
        /\ Len(jobs) = 1
        /\ nthreads = 1

\* C3: stop() invoked while the scheduler is stopped returns failure (not
\* running) at once and changes nothing: is_running, last_run, next_run, the
\* job list and the jobs' firing times are as before.
C3_StopWhileStoppedRejected ==
    [][ \A c \in Callers :
            (StopCall(c) /\ ~is_running) =>
                /\ ret' = Returned(c, NotRunning)
                /\ cpc'[c] = "idle"
                /\ UNCHANGED <<is_running, last_run, next_run, jobs, job_next, nthreads, tpc>>
      ]_vars

\* C3 witness: a stop() was rejected on a scheduler that had been started and
\* stopped before.
C3_Witness ==
    \E c \in Callers :
        /\ ret = Returned(c, NotRunning)
        /\ ~is_running
        /\ nthreads > 0
        /\ CallersIdle

\* C4: in every reachable state, is_running = false implies next_run = None
\* and no registered job.
C4_StoppedImpliesNoSchedule ==
    ~is_running => (next_run = None /\ Len(jobs) = 0)

\* C5: in every reachable state, is_running = true implies exactly one
\* registered job.
C5_RunningImpliesOneRule ==
    is_running => Len(jobs) = 1

\* C6: a start() that succeeds returns with is_running true, exactly one job
\* registered, and next_run set to the soonest next firing of the registered
\* jobs.
C6_StartPostcondition ==
    [][ \A c \in Callers :
            StartThread(c) =>
                /\ is_running'
                /\ Len(jobs') = 1
                /\ next_run' # None
                /\ next_run' = Some(job_next'[jobs'[1]])
      ]_vars

Stopped == ~is_running /\ Len(jobs) = 0 /\ next_run = None

\* C7: a stop() that succeeds returns with is_running false, no job
\* registered and next_run = None, and these stay so until the next start()
\* is invoked, whatever the loop threads do meanwhile.
C7_StopPostconditionStays ==
    [][ /\ \A c \in Callers : StopNext(c) => Stopped'
        /\ (CallersIdle /\ nthreads > 0 /\ Stopped /\ CallersIdle') => Stopped'
      ]_vars

\* C9: a failure inside a scheduled pass does not escape to the loop thread:
\* in the step that fails the pass the thread stays inside run_pending, and
\* its next step leaves the pass with the job rescheduled for the next
\* firing and the loop going on (to the next due job or to its sleep), from
\* where a later due firing starts another pass.
C9_FailedPassStaysInLoop ==
    [][ \A t \in Threads :
            /\ (InPass(t) /\ outcome'[pass[t].id].result = "failed") => tpc'[t] = "job"
            /\ ( /\ tpc[t] = "job"
                 /\ pass[t].pc = "done"
                 /\ outcome[pass[t].id].result = "failed"
                 /\ <<tpc[t], pass[t]>>' # <<tpc[t], pass[t]>> )
               => /\ tpc'[t] \in {"job", "sleep"}
                  /\ pass'[t] = NoPass
                  /\ trun'[t] = Tail(trun[t])
                  /\ job_next'[Head(trun[t])] = NextFiring(now)
      ]_vars

\* C9 witness: the loop thread whose first scheduled pass failed is, with the
\* scheduler still running, inside the pass of the rule's next firing.
C9_Witness ==
    \E t \in Threads :
        /\ is_running
        /\ Len(outcome) = 2
        /\ outcome[1] = [by |-> t, result |-> "failed"]
        /\ outcome[2].by = t
        /\ pass[t].id = 2
        /\ InPass(t)

\* The calls a pass made to the mail provider: is_configured (line 115)
\* probes it once in every iteration of the loop over topic_groups, right
\* after the iteration's Content Provider call.
MailProbes(f) == Len(f.calls)

\* C11: a pass that finds no active subscriber ends without failure, having
\* made no Content Provider call and no call to the mail provider and having
\* inserted no row; no row of such a pass is ever in the run log, and the
\* manual_run that ran it returns success.
C11_EmptyPassDoesNothing ==
    /\ \A x \in Ctxs :
        LET f == pass[x]
        IN  (f.pc = "done" /\ outcome[f.id].result # "failed" /\ ActiveStrings(f.table) = {})
                => /\ outcome[f.id].result = "empty"
                   /\ Len(f.calls) = 0
                   /\ MailProbes(f) = 0
                   /\ f.rendered = 0
                   /\ Len(f.pending) = 0
    /\ \A i \in 1..Len(outcome) : outcome[i].result = "empty" => Len(RowsOfPass(i)) = 0
    /\ \A c \in Callers :
        (ret.caller = c /\ ret.result.op = "manual_run"
            /\ outcome[LastPassBy(c)].result = "empty") => ret.result.success

\* C11 witness: manual_run has returned success for a pass over a table whose
\* only rows are inactive, and the run log is empty.
C11_Witness ==
    /\ ret.caller = Operator
    /\ ret.result.op = "manual_run"
    /\ ret.result.success
    /\ outcome[LastPassBy(Operator)].result = "empty"
    /\ \E e \in Emails : subscribers[e].present /\ ~subscribers[e].active
    /\ Len(newsletter_logs) = 0

\* The number of subscribers active in table tbl.
ActiveCount(tbl) == Cardinality({e \in Emails : tbl[e].present /\ tbl[e].active})

\* C12: whatever passes ran before, the response of the generate-newsletters
\* trigger whose pass ran without failure over N active subscribers carries
\* newsletters_generated = N and subscribers_reached = N.
C12_TriggerReportsThisPass ==
    [][ \A c \in Callers :
            (GenerateCount(c) /\ outcome[pass[c].id].result \in {"ok", "empty"}) =>
                /\ ret'.result.newsletters_generated = ActiveCount(pass[c].table)
                /\ ret'.result.subscribers_reached = ActiveCount(pass[c].table)
      ]_vars

\* C13: with the Content Provider not configured, every section of every
\* content value generated by a pass, and of every content logged, has the
\* source 'fallback'; manual_run returns success, and a pass that met no
\* store failure has written one row for each active subscriber.
C13_UnconfiguredProviderFallsBack ==
    ~api_configured =>
        /\ \A x \in Ctxs : \A i \in 1..Len(pass[x].calls) :
                \A k \in 1..Len(pass[x].calls[i].content.sections) :
                    pass[x].calls[i].content.sections[k].source = "fallback"
        /\ \A i \in 1..Len(newsletter_logs) : \A k \in 1..Len(newsletter_logs[i].content) :
                newsletter_logs[i].content[k][1] = "source"
                    => newsletter_logs[i].content[k][2] = "fallback"
        /\ \A c \in Callers :
                (ret.caller = c /\ ret.result.op = "manual_run") => ret.result.success
        /\ \A x \in Ctxs :
                (pass[x].pc = "done" /\ outcome[pass[x].id].result = "ok") =>
                    /\ Len(RowsOfPass(pass[x].id)) = ActiveCount(pass[x].table)
                    /\ \A e \in Emails :
                            (pass[x].table[e].present /\ pass[x].table[e].active) =>
                                \E i \in 1..Len(RowsOfPass(pass[x].id)) :
                                    RowsOfPass(pass[x].id)[i].subscriber_email = e

\* C13 witness: without an API key, manual_run has returned success for a
\* pass that logged two subscribers, one of them with two-section content.
C13_Witness ==
    /\ ~api_configured
    /\ ret.caller = Operator
    /\ ret.result.op = "manual_run"
    /\ ret.result.success
    /\ outcome[LastPassBy(Operator)].result = "ok"
    /\ Len(RowsOfPass(LastPassBy(Operator))) = 2
    /\ \E i \in 1..Len(newsletter_logs) :
            /\ Len(newsletter_logs[i].content) = 8
            /\ newsletter_logs[i].content[5] = <<"source", "fallback">>
            /\ newsletter_logs[i].content[8] = <<"source", "fallback">>

\* C14: the log side of a pass is not gated on the mail provider: whatever
\* the provider answered to its probes, and in particular when it answered
\* unconfigured every time (nothing rendered for dispatch), a pass that
\* completed generated content for every group and wrote exactly one row,
\* with success = true, for each active subscriber and none for anyone else.
C14_UnconfiguredMailStillLogs ==
    \A x \in Ctxs :
        (pass[x].pc = "done" /\ outcome[pass[x].id].result = "ok") =>
            LET f == pass[x]
                rows == RowsOfPass(f.id)
            IN  /\ f.rendered <= MailProbes(f)
                /\ Len(f.calls) = Cardinality(ActiveStrings(f.table))
                /\ Len(rows) = ActiveCount(f.table)
                /\ \A i \in 1..Len(rows) :
                        /\ f.table[rows[i].subscriber_email].present
                        /\ f.table[rows[i].subscriber_email].active
                        /\ rows[i].success = TRUE
                        /\ \A j \in 1..Len(rows) :
                                rows[i].subscriber_email = rows[j].subscriber_email => i = j

\* C14 witness: a pass over two groups completed with the mail provider
\* unconfigured at both probes (nothing rendered) and logged both subscribers.
C14_Witness ==
    \E x \in Ctxs :
        /\ pass[x].pc = "done"
        /\ outcome[pass[x].id].result = "ok"
        /\ MailProbes(pass[x]) = 2
        /\ pass[x].rendered = 0
        /\ Len(RowsOfPass(pass[x].id)) = 2

\* C15: the rows of one pass reach the run log all together at the end of
\* the pass or not at all: no row of a pass that is still running, found no
\* subscriber or failed is in the run log, and the run log changes only by
\* the step that ends a pass well, which appends every row the pass
\* inserted, one per fetched subscriber.
C15_RowsCommitTogether ==
    /\ [](\A i \in 1..Len(outcome) : outcome[i].result # "ok" => Len(RowsOfPass(i)) = 0)
    /\ [][ newsletter_logs' # newsletter_logs =>
              \E x \in Ctxs :
                  /\ pass[x].pc = "commit"
                  /\ outcome'[pass[x].id].result = "ok"
                  /\ Len(pass[x].pending) = Len(pass[x].subs)
                  /\ newsletter_logs' = newsletter_logs \o pass[x].pending
          ]_vars

\* C15 witness: a pass failed after it had inserted the rows of its first
\* group, and none of its rows is in the run log.
C15_Witness ==
    \E x \in Ctxs :
        /\ pass[x].pc = "done"
        /\ outcome[pass[x].id].result = "failed"
        /\ Len(pass[x].calls) = 2
        /\ Len(RowsOfPass(pass[x].id)) = 0

\* The scheduler fields and the recurring rules manual_run must not touch.
ScheduleState == <<is_running, next_run, jobs, job_next>>

\* C16: manual_run can be invoked by an idle request thread whether the
\* scheduler is running or stopped; its first step begins exactly one pass,
\* no later step of the call begins another, it returns only when that pass
\* is over (well, empty or failed), and no step of the call changes
\* is_running, next_run, the job list or the jobs' firing times.
C16_ManualRunFrame ==
    /\ [](\A c \in Callers :
            (cpc[c] = "idle" /\ npass < (IF nstarts <= 1 THEN MaxPasses ELSE RacePasses))
                => ENABLED ManualRun(c))
    /\ [][ \A c \in Callers :
              /\ ManualRun(c) =>
                    /\ Len(outcome') = Len(outcome) + 1
                    /\ outcome'[Len(outcome')] = [by |-> c, result |-> "running"]
                    /\ UNCHANGED ScheduleState
              /\ ManualStep(c) =>
                    /\ Len(outcome') = Len(outcome)
                    /\ UNCHANGED ScheduleState
              /\ ManualReturn(c) =>
                    /\ outcome[pass[c].id].by = c
                    /\ outcome[pass[c].id].result \in {"ok", "empty", "failed"}
                    /\ pass[c].id = LastPassBy(c)
                    /\ UNCHANGED <<ScheduleState, outcome, last_run, newsletter_logs>>
          ]_vars

\* C16 witness: with the scheduler running, its rule registered and next_run
\* set, manual_run has returned from its second pass, which began at instant
\* 1 and ended well.
C16_Witness ==
    /\ is_running
    /\ Len(jobs) = 1
    /\ next_run # None
    /\ nthreads = 1
    /\ cpc[Observer] = "idle"
    /\ pass[Observer] = NoPass
    /\ ret = Returned(Observer, Result("manual_run", TRUE, "Newsletter generation completed successfully"))
    /\ Len(outcome) = 2
    /\ outcome[1].by = Observer
    /\ outcome[2] = [by |-> Observer, result |-> "ok"]
    /\ last_run = Some(1)

\* Some step of get_status in request thread c.
StatusStep(c) ==
    StatusCall(c) \/ StatusLast(c) \/ StatusNextTest(c) \/ StatusNextUse(c) \/ StatusJobs(c)

\* C17: get_status can be invoked by an idle request thread in every state,
\* passes in progress included; no step of it changes a scheduler field, a
\* job or the run log; and every call is answered with the dict of the four
\* fields, never with an error.
C17_StatusPureRead ==
    /\ [](\A c \in Callers : cpc[c] = "idle" => ENABLED StatusCall(c))
    /\ [][ \A c \in Callers :
              StatusStep(c) =>
                  /\ UNCHANGED <<is_running, last_run, next_run, jobs, job_next, newsletter_logs>>
                  /\ ret' # Returned(c, StatusError)
          ]_vars

\* The loop threads that have been started and have neither left their
\* while loop nor died.
LiveLoops == {t \in Threads : tpc[t] \notin {"unborn", "exited", "crashed"}}

\* C18: in every reachable state at most one poll loop is live.
C18_AtMostOneLoop == Cardinality(LiveLoops) <= 1

\* C19: start() is atomic with respect to other start() calls: as long as
\* no stop() has got past its check, at most one start() has returned
\* success and started a loop thread, at most one job is registered, and
\* once the starts have returned a started scheduler has exactly one job.
C19_ConcurrentStartsOneWins ==
    nstops = 0 =>
        /\ nthreads <= 1
        /\ Len(jobs) <= 1
        /\ (CallersIdle /\ nthreads >= 1) => (is_running /\ Len(jobs) = 1)

\* A stop() has just returned success and t is the loop thread started by
\* the latest start().
StopReturned(t) ==
    /\ \E c \in Callers : ret = Returned(c, Result("stop", TRUE, "Scheduler stopped successfully"))
    /\ scheduler_thread = Some(t)
    /\ tpc[t] # "unborn"

\* C20: after a stop() returned success, the loop thread started by the
\* preceding start() eventually ends, whatever is invoked afterwards.
C20_StoppedLoopExits ==
    \A t \in Threads : StopReturned(t) ~> (tpc[t] \in {"exited", "crashed"})

\* ------------------------------------------------------------ C21 .. C30
StopStep(c) == StopCall(c) \/ StopSet(c) \/ StopClear(c) \/ StopNext(c)

\* C21: stop() never aborts a pass in flight.  No step of stop() changes the
\* frame of a pass, the outcome of a pass or the run log; a pass in flight,
\* manual or scheduled, has its next step enabled in every state, whatever
\* stop() has done meanwhile; and a pass that ended without failure has
\* committed one row per subscriber that was active at its fetch.
C21_StopNeverAbortsPass ==
    /\ [][ \A c \in Callers : StopStep(c) => UNCHANGED <<pass, outcome, newsletter_logs>> ]_vars
    /\ [](\A c \in Callers : (cpc[c] = "manual_run" /\ InPass(c)) => ENABLED ManualStep(c))
    /\ [](\A t \in Threads : (tpc[t] = "job" /\ InPass(t)) => ENABLED LoopPassStep(t))
    /\ [](\A x \in Ctxs :
            (pass[x].pc = "done" /\ outcome[pass[x].id].result = "ok") =>
                Len(RowsOfPass(pass[x].id)) = ActiveCount(pass[x].table))

\* C21 witness: stop() has cleared the flag and the job list and has not yet
\* returned while the scheduled pass of the loop thread and the manual pass of
\* a request thread are both in flight, the scheduled one at its commit with
\* one pending row for each of the two active subscribers.
C21_Witness ==
    /\ cpc[Operator] = "stop_next"
    /\ ~is_running
    /\ Len(jobs) = 0
    /\ cpc[Observer] = "manual_run"
    /\ InPass(Observer)
    /\ \E t \in Threads :
          /\ tpc[t] = "job"
          /\ pass[t].pc = "commit"
          /\ Len(pass[t].pending) = 2

\* C22: generate_content_for_topic never raises to its caller, whatever the
\* topic and whatever the request came to.  Every section of the content
\* returned has the source 'fallback' and the fallback text of its topic
\* when no API key is set or the request did not come to a well-formed 200
\* answer, and has the source 'perplexity_ai' only when a key is set and the
\* request did.
C22_GeneratorNeverRaises ==
    gen.pc = "returned" =>
        /\ Len(gen.content.sections) = Len(gen.topics)
        /\ \A i \in 1..Len(gen.topics) :
              LET sec == gen.content.sections[i]
              IN  /\ sec.source # Raises.source
                  /\ sec.topic = gen.topics[i]
                  /\ (~api_configured \/ gen.replies[i] # "ok") =>
                        /\ sec.source = "fallback"
                        /\ sec.content = FallbackContent(gen.topics[i]).content
                  /\ sec.source = "perplexity_ai" => (api_configured /\ gen.replies[i] = "ok")
                  /\ sec.source \in {"fallback", "perplexity_ai"}

\* C22 witness: with a key set, a call for two topics returned the answer of
\* the provider for the first and, the body of the second answer being
\* malformed, the fallback text for the second, a topic outside the tables.
C22_Witness ==
    /\ api_configured
    /\ gen.pc = "returned"
    /\ gen.topics = <<"Coding tools and IDEs", OtherTopic>>
    /\ gen.replies = <<"ok", "malformed_body">>
    /\ gen.content.sections[1].source = "perplexity_ai"
    /\ gen.content.sections[2].source = "fallback"
    /\ gen.content.sections[2].content = <<"fallback_text", OtherTopic>>

\* The last response sent is the success of a stop(): no call has returned
\* since, so no later start() has succeeded.
StopSucceededLast ==
    \E c \in Callers : ret = Returned(c, Result("stop", TRUE, "Scheduler stopped successfully"))

\* C23: once stop() has returned success, no loop thread begins a scheduled
\* pass before a later start() has returned success.
C23_NoScheduledPassAfterStop ==
    [][ \A t \in Threads : ~(StopSucceededLast /\ LoopRunJob(t)) ]_vars

\* C24: the first step of every pass assigns the current time to last_run,
\* before the subscribers are fetched and before anything is logged; no
\* other step of a pass changes last_run.  So once a pass has begun, and
\* however it ended (no active subscriber, a failure, a commit), last_run
\* holds an instant and not None.
C24_PassStampsLastRunFirst ==
    /\ [][ \A x \in Ctxs :
             (pass[x].pc = "none" /\ pass'[x].pc # "none") =>
                 /\ last_run' = Some(now)
                 /\ pass'[x].pc = "fetch"
                 /\ pass'[x].subs = << >>
                 /\ pass'[x].table = NoTable
                 /\ newsletter_logs' = newsletter_logs ]_vars
    /\ [][ last_run' # last_run =>
             \E x \in Ctxs : pass[x].pc = "none" /\ pass'[x].pc = "fetch" ]_vars
    /\ [](\A i \in 1..Len(outcome) : last_run # None /\ last_run[1] <= now)

\* C24 witness: a first pass failed at instant 0 and a second one, begun at
\* instant 1, found no active subscriber: last_run is instant 1.
C24_Witness ==
    /\ Len(outcome) = 2
    /\ outcome[1].result = "failed"
    /\ outcome[2].result = "empty"
    /\ pass[Operator].pc = "done"
    /\ pass[Operator].id = 2
    /\ ActiveCount(subscribers) = 0
    /\ last_run = Some(1)
    /\ newsletter_logs = << >>

\* The campaigns a pass has created through EmailService.create_campaign:
\* the branch of lines 115-120 renders the HTML and prints, and the pass has
\* no call of create_campaign, so there are none.
CampaignsCreated(f) == << >>

\* C25: a pass issues one dispatch (campaign creation) for every topic group
\* for which the mail provider reported itself configured and whose content
\* it rendered to HTML.
C25_OneDispatchPerRenderedGroup ==
    \A x \in Ctxs : Len(CampaignsCreated(pass[x])) = pass[x].rendered

\* Some registered job is due: its next_run is not after the current time.
DueRule == \E i \in 1..Len(jobs) : job_next[jobs[i]] <= now

\* A loop thread is in _run_scheduler.
LoopAlive == \E t \in Threads : tpc[t] \notin {"unborn", "exited", "crashed"}

\* Another pass can begin within the number of passes explored.
PassBudget == npass < (IF nstarts <= 1 THEN MaxPasses ELSE RacePasses)

\* A loop thread is inside the job function, or has just left it.
ScheduledPass == \E t \in Threads : pass[t].pc # "none"

\* next_run is the firing time of a registered job, after the last pass began.
NextRunRecomputed ==
    /\ next_run # None
    /\ last_run # None
    /\ next_run[1] > last_run[1]
    /\ \E i \in 1..Len(jobs) : next_run = Some(job_next[jobs[i]])

RowsOfPassFor(pid, e) ==
    LET Mine(r) == r.pass = pid /\ r.subscriber_email = e
    IN  SelectSeq(newsletter_logs, Mine)

\* The passes that ended with their commit.
CommittedPasses == {i \in 1..Len(outcome) : outcome[i].result = "ok"}

\* C27: manual and scheduled passes may overlap, and neither loses or
\* overwrites rows of the other: in every state the run log holds, for every
\* pass that committed, exactly one row per active subscriber, whichever
\* passes ran meanwhile, and holds no row of a pass that did not commit.
C27_OverlappingPassesKeepRows ==
    /\ \A i \in CommittedPasses : \A e \in Emails :
          Len(RowsOfPassFor(i, e)) =
              (IF subscribers[e].present /\ subscribers[e].active THEN 1 ELSE 0)
    /\ \A i \in (1..Len(outcome)) \ CommittedPasses : Len(RowsOfPass(i)) = 0
    /\ Len(newsletter_logs) = Cardinality(CommittedPasses) * ActiveCount(subscribers)

\* C27 witness: the manual pass began first, the scheduled pass began and
\* committed while the manual one was in progress, and then the manual one
\* committed: the log holds the two rows of the scheduled pass followed by
\* the two rows of the manual pass.
C27_Witness ==
    /\ Len(outcome) = 2
    /\ outcome[1] = [by |-> Observer, result |-> "ok"]
    /\ outcome[2].by \in Threads
    /\ outcome[2].result = "ok"
    /\ Len(newsletter_logs) = 4
    /\ newsletter_logs[1].pass = 2
    /\ newsletter_logs[2].pass = 2
    /\ newsletter_logs[3].pass = 1
    /\ newsletter_logs[4].pass = 1
    /\ newsletter_logs[1].subscriber_email # newsletter_logs[2].subscriber_email
    /\ newsletter_logs[3].subscriber_email # newsletter_logs[4].subscriber_email

\* Loop threads t1 and t2 are both running job j for one firing: each has
\* taken j from its list of due jobs and is in, or just out of, the job
\* function, and j has not been rescheduled since the first took it.
SameFiringTwice(t1, t2) ==
    /\ t1 # t2
    /\ tpc[t1] = "job" /\ tpc[t2] = "job"
    /\ Len(trun[t1]) > 0 /\ Len(trun[t2]) > 0
    /\ Head(trun[t1]) = Head(trun[t2])
    /\ pass[t1].pc # "none" /\ pass[t2].pc # "none"

\* C28: no firing of the weekly rule produces two scheduled passes.
C28_OnePassPerFiring ==
    \A t1 \in Threads, t2 \in Threads : ~SameFiringTwice(t1, t2)

\* A step by which the start() of request thread c returns failure.
StartReturnsFailure(c) ==
    /\ cpc[c] \in {"idle", "start_update", "start_thread"}
    /\ cpc'[c] = "idle"
    /\ ret' # ret
    /\ ret'.caller = c
    /\ ret'.result.op = "start"
    /\ ~ret'.result.success

\* C29: a start() that returns failure leaves the scheduler as it was before
\* the call.  A call rejected at the is_running check changes nothing; a call
\* that got past the check was made with is_running false, and, made on the
\* constructed scheduler by the only thread that starts and stops it, with
\* no job registered and next_run = None, so it returns failure in that state.
C29_FailedStartLeavesState ==
    [][ \A c \in Callers :
          StartReturnsFailure(c) =>
              IF cpc[c] = "idle"
              THEN UNCHANGED <<is_running, jobs, job_next, next_run>>
              ELSE ~is_running' /\ Len(jobs') = 0 /\ next_run' = None ]_vars

\* The rows of table tbl whose email, lower-cased, is e.
RecordsOf(tbl, e) == {a \in Addresses : NormalizeEmail(a) = e /\ tbl[a].present}

\* The topics column of a row holds the text of a list of 1 to 3 available
\* topics.
ValidStored(topics_json) ==
    /\ JsonLoads(topics_json).ok
    /\ validate_topics(JsonLoads(topics_json).value)

\* A step by which a subscribe request is answered with a rejection.
SubscribeRejected ==
    /\ ret' # ret
    /\ ret'.result.op = "subscribe"
    /\ ~ret'.result.success

\* C30: the store holds at most one record per lower-cased email, each with
\* a topic list of 1 to 3 available topics; a rejected subscribe request
\* changes nothing; an accepted one leaves, for its lower-cased email, the
\* one record with the topics of the request and active set, and the other
\* records as they were; and no pass writes two run log rows for one email.
C30_OneRecordPerEmail ==
    /\ [](\A e \in Emails : Cardinality(RecordsOf(subscribers, e)) <= 1)
    /\ [](\A a \in Addresses : subscribers[a].present => ValidStored(subscribers[a].topics))
    /\ [][ SubscribeRejected => subscribers' = subscribers ]_vars
    /\ [][ \A a \in RequestEmails, l \in RequestLists :
             (Subscribe(Subscriber, a, l) /\ ret'.result.success) =>
                 /\ subscribers'[NormalizeEmail(a)] = Row(JsonDumps(l), TRUE)
                 /\ JsonLoads(subscribers'[NormalizeEmail(a)].topics).value = l
                 /\ \A b \in Addresses \ {NormalizeEmail(a)} : subscribers'[b] = subscribers[b] ]_vars
    /\ [](\A i \in 1..Len(outcome) : \A e \in Emails :
             LET Mine(r) == r.pass = i /\ NormalizeEmail(r.subscriber_email) = e
             IN  Len(SelectSeq(newsletter_logs, Mine)) <= 1)

\* C30 witness: a request for the first address, in either spelling, with
\* two topics was answered as an update of the existing record, which now
\* holds the two topics and is active, no record being kept under the
\* capital spelling; the pass that ran afterwards wrote one row for each of
\* the two addresses.
C30_Witness ==
    /\ nsubscribes = 1
    /\ ret = Returned(Subscriber, Result("subscribe", TRUE, "Subscription updated successfully"))
    /\ subscribers[1] = Row(JsonDumps(<<"Coding tools and IDEs", "LLMs released this week">>), TRUE)
    /\ subscribers[2].present /\ subscribers[2].active
    /\ ~subscribers[1 + NumEmails].present
    /\ pass[Operator].pc = "done"
    /\ pass[Operator].table = subscribers
    /\ Len(outcome) = 1
    /\ outcome[1].result = "ok"
    /\ Len(newsletter_logs) = 2
    /\ newsletter_logs[1].subscriber_email = 1
    /\ newsletter_logs[1].topics = subscribers[1].topics
    /\ newsletter_logs[2].subscriber_email = 2

====
